---- MODULE Spec2Model ----
(***************************************************************************)
(* The progress-tracking task tree of src/src/tasks.py (Task, SimpleTask,  *)
(* CounterTask, MultiTask) and the listener-id allocator of                *)
(* src/src/logger/utils.py (unique_integer_key).                           *)
(*                                                                         *)
(* Spec      a task tree built and driven by one caller at a time: every   *)
(*           public call (constructors, add, update, reset) is one atomic  *)
(*           action that runs the whole call, listener fan-out included.   *)
(* SpecLeaf  the lifetime of one leaf task and its listener registry       *)
(*           (constructor, add, remove, update, reset), one caller.        *)
(* SpecConc  the construction of src/test6.py (two leaves under one        *)
(*           MultiTask) with several workers calling update() on the       *)
(*           leaves concurrently, one step per shared-memory access.       *)
(***************************************************************************)
EXTENDS Integers, Sequences, FiniteSets, TLC

\* Bounds of the model.
MaxTasks == 3
MaxSubs == 2
MaxListeners == 3
MaxLength == 2
NumExt == 2
NumWorkers == 2
MaxCalls == 2

Tasks == 1..MaxTasks
Uids == 1..(MaxListeners + 1)
ExtListeners == 1..NumExt
Workers == 1..NumWorkers

\* progress_length is not validated and test6.py passes len(data) / 2, a
\* float: a length is the rational num/den, den in {1, 2}; non-positive
\* integers are accepted by the constructor as well.
Lengths ==
  {[num |-> n, den |-> 1] : n \in (-1)..MaxLength}
    \cup {[num |-> 2 * n - 1, den |-> 2] : n \in 1..MaxLength}

PositiveLengths == {len \in Lengths : len.num > 0}
IntegerLengths == {len \in PositiveLengths : len.den = 1}
TreeLengths == IntegerLengths \cup {[num |-> 1, den |-> 2]}

NoLength == [num |-> 0, den |-> 1]

VARIABLES
  kind,       \* kind[t]: "none" (not constructed), "simple", "counter", "multi"
  length,     \* CounterTask._length
  subs,       \* MultiTask._sub_tasks
  isDone,     \* SimpleTask._is_done.value
  progress,   \* CounterTask._progress.value
  listeners,  \* Task._update_listeners: the dict, uid -> callback
  fired,      \* observer: fired[t][uid], invocations of the listener uid of t
  last,       \* observer: the last public call and how it ended
  run,        \* observer (SpecLeaf): update() calls since the constructor or
              \* the last reset(), counted up to MaxRun
  peak,       \* observer: peak[t], the most listeners t has had at one time
  pc,         \* SpecConc: the position of each worker inside update()
  wtask,      \* SpecConc: the leaf the worker's update() runs on
  tmp,        \* SpecConc: the value read by `self._progress.value += 1`
  lock,       \* SpecConc: holder of _progress.get_lock() per task, 0 if free
  ncalls      \* SpecConc: number of update() calls the worker has issued

taskVars == <<kind, length, subs, isDone, progress, listeners>>
concVars == <<pc, wtask, tmp, lock, ncalls>>
vars == <<kind, length, subs, isDone, progress, listeners, fired, last,
          run, peak, pc, wtask, tmp, lock, ncalls>>

----------------------------------------------------------------------------
\* Callbacks: a counting listener of the environment, or the bound method
\* MultiTask.update of composite m (tasks.py line 97).
ExtCb(k) == [kind |-> "ext", id |-> k]
UpdateCb(m) == [kind |-> "update", id |-> m]

NoListeners == [u \in {} |-> ExtCb(0)]

Min(S) == CHOOSE x \in S : \A y \in S : x <= y

\* sorted(dictionary.keys())
RECURSIVE Sorted(_)
Sorted(S) == IF S = {} THEN <<>> ELSE <<Min(S)>> \o Sorted(S \ {Min(S)})

\* Mutant of KeyScan: the gap branch returns the key after the gap.
RECURSIVE KeyScanReturnsKey(_, _, _)
KeyScanReturnsKey(ks, i, prev) ==
  IF i > Len(ks) THEN prev + 1
  ELSE IF ks[i] - prev # 1 THEN ks[i]
  ELSE KeyScanReturnsKey(ks, i + 1, ks[i])

\* Mutant of KeyScan: past the last key the result skips one integer.
RECURSIVE KeyScanSkipsOne(_, _, _)
KeyScanSkipsOne(ks, i, prev) ==
  IF i > Len(ks) THEN prev + 2
  ELSE IF ks[i] - prev # 1 THEN ks[i] - 1
  ELSE KeyScanSkipsOne(ks, i + 1, ks[i])

\* The loop of unique_integer_key over the sorted keys ks from position i.
RECURSIVE KeyScan(_, _, _)
KeyScan(ks, i, prev) ==
  IF i > Len(ks) THEN prev + 1
  ELSE IF ks[i] - prev # 1 THEN ks[i] - 1
  ELSE KeyScan(ks, i + 1, ks[i])

\* Mutant of unique_integer_key: no gap is reused.
MaxKeyPlusOne(reg) ==
  IF DOMAIN reg = {} THEN 1
  ELSE (CHOOSE x \in DOMAIN reg : \A y \in DOMAIN reg : y <= x) + 1

unique_integer_key(reg) == KeyScan(Sorted(DOMAIN reg), 1, 0)

\* self._update_listeners[uid] = listener
RegPut(reg, uid, cb) ==
  [u \in DOMAIN reg \cup {uid} |-> IF u = uid THEN cb ELSE reg[u]]

\* The dict after Task.add(listener).
RegAdd(reg, cb) == RegPut(reg, unique_integer_key(reg), cb)

\* Mutant of RegDel: the entries after uid go as well.
RegDelFrom(reg, uid) == [u \in {v \in DOMAIN reg : v < uid} |-> reg[u]]

\* del self._update_listeners[uid]
RegDel(reg, uid) == [u \in DOMAIN reg \ {uid} |-> reg[u]]

----------------------------------------------------------------------------
\* is_done() of the three variants on the values d (done flags), p (counters).
\* Mutant of CounterDone: done only once the counter is past the length.
CounterDonePast(p, t) == p[t] * length[t].den > length[t].num

CounterDone(p, t) == p[t] * length[t].den >= length[t].num

RECURSIVE IsDone(_, _, _)
IsDone(d, p, t) ==
  CASE kind[t] = "simple" -> d[t]
    [] kind[t] = "counter" -> CounterDone(p, t)
    [] kind[t] = "multi" ->
         \A i \in 1..Len(subs[t]) : IsDone(d, p, subs[t][i])
    [] OTHER -> FALSE

Ins(op, t, u) == [op |-> op, t |-> t, u |-> u]

\* `for key, listener in self._update_listeners.items(): listener()`.
\* A dict iterates in insertion order; the callbacks here write nothing but
\* their own invocation count, so the calls are listed by ascending key.
Calls(t) ==
  LET ks == Sorted(DOMAIN listeners[t]) IN
    [i \in 1..Len(ks) |-> Ins("call", t, ks[i])]

\* _update() of the three variants, run by one caller.
DoUpdate(s, t) ==
  CASE kind[t] = "simple" -> [s EXCEPT !.d[t] = TRUE]
    [] kind[t] = "counter" -> [s EXCEPT !.p[t] = @ + 1]
    [] OTHER -> s

\* Mutant of UpdateGuard: update() without the is_done check.
UpdateUnguarded(s, t) == TRUE

\* The guard of Task.update: `if not self.is_done()`.
UpdateGuard(s, t) == ~IsDone(s.d, s.p, t)

\* Mutant of DoReset: the counter survives the reset.
DoResetKeepsCount(s, t) ==
  CASE kind[t] = "simple" -> [s EXCEPT !.d[t] = FALSE]
    [] OTHER -> s

\* _reset() of the leaves.
DoReset(s, t) ==
  CASE kind[t] = "simple" -> [s EXCEPT !.d[t] = FALSE]
    [] kind[t] = "counter" -> [s EXCEPT !.p[t] = 0]
    [] OTHER -> s

\* What MultiTask._reset and then Task.reset run for composite t: reset() of
\* every child in order, then the listeners of t.
ResetPlan(t) ==
  [i \in 1..Len(subs[t]) |-> Ins("reset", subs[t][i], 0)] \o Calls(t)

\* One step of a call: the state after it and the calls it opens, which run
\* before anything else pending (calls are synchronous and nest).
Step(s, ins) ==
  CASE ins.op = "update" ->
         IF UpdateGuard(s, ins.t)
         THEN [s |-> DoUpdate(s, ins.t), push |-> Calls(ins.t)]
         ELSE [s |-> s, push |-> <<>>]
    [] ins.op = "reset" ->
         IF kind[ins.t] = "multi"
         THEN [s |-> s, push |-> ResetPlan(ins.t)]
         ELSE [s |-> DoReset(s, ins.t), push |-> Calls(ins.t)]
    [] ins.op = "call" ->
         LET cb == listeners[ins.t][ins.u] IN
           [s |-> [s EXCEPT !.f[ins.t][ins.u] = @ + 1],
            push |-> IF cb.kind = "update"
                     THEN <<Ins("update", cb.id, 0)>> ELSE <<>>]

RECURSIVE Run(_, _)
Run(s, stack) ==
  IF stack = <<>> THEN s
  ELSE LET r == Step(s, Head(stack)) IN Run(r.s, r.push \o Tail(stack))

NoFired(regs) == [t \in Tasks |-> [u \in DOMAIN regs[t] |-> 0]]
Now == [d |-> isDone, p |-> progress, f |-> NoFired(listeners)]

Called(op, t, arg, res, was, ch) ==
  [op |-> op, t |-> t, arg |-> arg, res |-> res, wasDone |-> was, changed |-> ch]

----------------------------------------------------------------------------
\* completeness(): a float in the code, here the exact ratio num/den with
\* den > 0; ok is FALSE where the division raises ZeroDivisionError.
Ratio(n, d) ==
  IF d = 0 THEN [ok |-> FALSE, num |-> 0, den |-> 1]
  ELSE IF d < 0 THEN [ok |-> TRUE, num |-> 0 - n, den |-> 0 - d]
  ELSE [ok |-> TRUE, num |-> n, den |-> d]

RatAdd(a, b) ==
  [ok |-> a.ok /\ b.ok, num |-> a.num * b.den + b.num * a.den,
   den |-> a.den * b.den]

RatLeq(a, b) == a.num * b.den <= b.num * a.den

RatEq(a, b) == a.ok /\ b.ok /\ a.num * b.den = b.num * a.den

Zero == Ratio(0, 1)
One == Ratio(1, 1)

RECURSIVE Completeness(_, _, _)
RECURSIVE SumCompleteness(_, _, _, _)
\* Mutant of Completeness: a composite returns the sum, not the mean.
CompletenessSum(d, p, t) ==
  CASE kind[t] = "simple" -> IF d[t] THEN One ELSE Zero
    [] kind[t] = "counter" -> Ratio(p[t] * length[t].den, length[t].num)
    [] kind[t] = "multi" ->
         IF Len(subs[t]) = 0 THEN One
         ELSE SumCompleteness(d, p, subs[t], 1)
    [] OTHER -> Zero

Completeness(d, p, t) ==
  CASE kind[t] = "simple" -> IF d[t] THEN One ELSE Zero
    [] kind[t] = "counter" -> Ratio(p[t] * length[t].den, length[t].num)
    [] kind[t] = "multi" ->
         IF Len(subs[t]) = 0 THEN One
         ELSE LET acc == SumCompleteness(d, p, subs[t], 1) IN
                [ok |-> acc.ok, num |-> acc.num, den |-> acc.den * Len(subs[t])]
    [] OTHER -> Zero

SumCompleteness(d, p, cs, i) ==
  IF i > Len(cs) THEN Zero
  ELSE RatAdd(Completeness(d, p, cs[i]), SumCompleteness(d, p, cs, i + 1))

----------------------------------------------------------------------------
Exists(t) == kind[t] # "none"
NextTask == Cardinality({t \in Tasks : Exists(t)}) + 1

IdleWorkers ==
  /\ pc = [w \in Workers |-> "idle"]
  /\ wtask = [w \in Workers |-> 0]
  /\ tmp = [w \in Workers |-> 0]
  /\ ncalls = [w \in Workers |-> 0]
  /\ lock = [t \in Tasks |-> 0]

Init ==
  /\ kind = [t \in Tasks |-> "none"]
  /\ length = [t \in Tasks |-> NoLength]
  /\ subs = [t \in Tasks |-> <<>>]
  /\ isDone = [t \in Tasks |-> FALSE]
  /\ progress = [t \in Tasks |-> 0]
  /\ listeners = [t \in Tasks |-> NoListeners]
  /\ fired = NoFired(listeners)
  /\ last = Called("init", 0, 0, "ok", FALSE, FALSE)
  /\ run = 0
  /\ peak = [t \in Tasks |-> Cardinality(DOMAIN listeners[t])]
  /\ IdleWorkers

\* The calls of update() are counted up to MaxRun, one more than any length.
MaxRun == MaxLength + 1

Max(a, b) == IF a >= b THEN a ELSE b

\* peak after the registries became regs
Peak(regs) ==
  [t \in Tasks |-> Max(peak[t], Cardinality(DOMAIN regs[t]))]

\* SimpleTask(name)
NewSimple ==
  /\ NextTask \in Tasks
  /\ kind' = [kind EXCEPT ![NextTask] = "simple"]
  /\ fired' = NoFired(listeners)
  /\ last' = Called("new", NextTask, 0, "ok", FALSE, TRUE)
  /\ UNCHANGED <<length, subs, isDone, progress, listeners, concVars, run,
                 peak>>

\* CounterTask(progress_length, name): progress_length is stored unchecked.
NewCounter(len) ==
  /\ NextTask \in Tasks
  /\ kind' = [kind EXCEPT ![NextTask] = "counter"]
  /\ length' = [length EXCEPT ![NextTask] = len]
  /\ fired' = NoFired(listeners)
  /\ last' = Called("new", NextTask, 0, "ok", FALSE, TRUE)
  /\ UNCHANGED <<subs, isDone, progress, listeners, concVars, run, peak>>

\* Mutant of Subscribe: the composite subscribes twice to every child.
RECURSIVE SubscribeTwice(_, _, _, _)
SubscribeTwice(regs, m, cs, i) ==
  IF i > Len(cs) THEN regs
  ELSE SubscribeTwice(
         [regs EXCEPT ![cs[i]] = RegAdd(RegAdd(@, UpdateCb(m)), UpdateCb(m))],
         m, cs, i + 1)

\* The registries after `task.add(self.update)` for the children cs[i..].
RECURSIVE Subscribe(_, _, _, _)
Subscribe(regs, m, cs, i) ==
  IF i > Len(cs) THEN regs
  ELSE Subscribe([regs EXCEPT ![cs[i]] = RegAdd(@, UpdateCb(m))], m, cs, i + 1)

SubLists ==
  UNION {[1..n -> {t \in Tasks : Exists(t)}] : n \in 0..MaxSubs}

\* MultiTask(name, *tasks)
NewMulti(cs) ==
  /\ NextTask \in Tasks
  /\ LET regs == Subscribe(listeners, NextTask, cs, 1) IN
       /\ \A t \in Tasks : Cardinality(DOMAIN regs[t]) <= MaxListeners
       /\ listeners' = regs
       /\ fired' = NoFired(regs)
       /\ peak' = Peak(regs)
  /\ kind' = [kind EXCEPT ![NextTask] = "multi"]
  /\ subs' = [subs EXCEPT ![NextTask] = cs]
  /\ last' = Called("new", NextTask, 0, "ok", FALSE, TRUE)
  /\ UNCHANGED <<length, isDone, progress, concVars, run>>

\* Task.add(listener) with a listener of the environment; last.arg is the
\* uid returned.
Add(t, k) ==
  /\ Exists(t)
  /\ Cardinality(DOMAIN listeners[t]) < MaxListeners
  /\ LET reg == RegAdd(listeners[t], ExtCb(k)) IN
       /\ listeners' = [listeners EXCEPT ![t] = reg]
       /\ fired' = NoFired([listeners EXCEPT ![t] = reg])
       /\ peak' = Peak([listeners EXCEPT ![t] = reg])
  /\ last' = Called("add", t, unique_integer_key(listeners[t]), "ok",
                    IsDone(isDone, progress, t), TRUE)
  /\ UNCHANGED <<kind, length, subs, isDone, progress, concVars, run>>

\* Task.remove(uid): `del` raises KeyError for a uid that is no key.
Remove(t, uid) ==
  /\ Exists(t)
  /\ IF uid \in DOMAIN listeners[t]
     THEN LET reg == RegDel(listeners[t], uid) IN
          /\ listeners' = [listeners EXCEPT ![t] = reg]
          /\ fired' = NoFired([listeners EXCEPT ![t] = reg])
          /\ last' = Called("remove", t, uid, "ok",
                            IsDone(isDone, progress, t), TRUE)
     ELSE /\ listeners' = listeners
          /\ fired' = NoFired(listeners)
          /\ last' = Called("remove", t, uid, "KeyError",
                            IsDone(isDone, progress, t), FALSE)
  /\ UNCHANGED <<kind, length, subs, isDone, progress, concVars, run, peak>>

\* Task.update(), the observer `run` left aside
UpdateCall(t) ==
  /\ Exists(t)
  /\ LET s == Run(Now, <<Ins("update", t, 0)>>) IN
       /\ isDone' = s.d
       /\ progress' = s.p
       /\ fired' = s.f
       /\ last' = Called("update", t, 0, "ok", IsDone(isDone, progress, t),
                         s.d # isDone \/ s.p # progress)
  /\ UNCHANGED <<kind, length, subs, listeners, concVars, peak>>

\* Task.update()
Update(t) == UpdateCall(t) /\ UNCHANGED run

\* Task.update() of the one leaf of SpecLeaf, the calls counted
CountedUpdate(t) ==
  UpdateCall(t) /\ run' = IF run < MaxRun THEN run + 1 ELSE run

\* Task.reset(), the observer `run` left aside
ResetCall(t) ==
  /\ Exists(t)
  /\ LET s == Run(Now, <<Ins("reset", t, 0)>>) IN
       /\ isDone' = s.d
       /\ progress' = s.p
       /\ fired' = s.f
       /\ last' = Called("reset", t, 0, "ok", IsDone(isDone, progress, t),
                         s.d # isDone \/ s.p # progress)
  /\ UNCHANGED <<kind, length, subs, listeners, concVars, peak>>

\* Task.reset()
Reset(t) == ResetCall(t) /\ UNCHANGED run

\* Task.reset() of the one leaf of SpecLeaf: the count of calls starts again
CountedReset(t) == ResetCall(t) /\ run' = 0

HasExt(t) == \E u \in DOMAIN listeners[t] : listeners[t][u].kind = "ext"

\* The tree: built bottom-up from leaves with positive lengths (the integers
\* and one half), at most one listener of the environment per task (as the
\* progress bars of test6.py).
Next ==
  \/ NewSimple
  \/ \E len \in TreeLengths : NewCounter(len)
  \/ \E cs \in SubLists : NewMulti(cs)
  \/ \E t \in Tasks : ~HasExt(t) /\ Add(t, 1)
  \/ \E t \in Tasks : Update(t)
  \/ \E t \in Tasks : Reset(t)

Spec == Init /\ [][Next]_vars

\* One leaf and its registry.
NextLeaf ==
  \/ NextTask = 1 /\ NewSimple
  \/ \E len \in Lengths : NextTask = 1 /\ NewCounter(len)
  \/ \E k \in ExtListeners : Add(1, k)
  \/ \E uid \in Uids : Remove(1, uid)
  \/ CountedUpdate(1)
  \/ CountedReset(1)

SpecLeaf == Init /\ [][NextLeaf]_vars

----------------------------------------------------------------------------
\* Concurrent callers of update().  multiprocessing.Value is a synchronized
\* wrapper: every read and write of .value takes the value's lock, and
\* CounterTask._update holds the same (reentrant) lock around `value += 1`.
LeafKinds ==
  {[kind |-> "simple", len |-> NoLength]}
    \cup {[kind |-> "counter", len |-> len] : len \in IntegerLengths}

\* test6.py lines 37-42: two leaves, MultiTask("tasks", task2, task3), then
\* one progress listener on each of the three tasks.
Test6Listeners ==
  LET subscribed == Subscribe([t \in Tasks |-> NoListeners], 3, <<1, 2>>, 1) IN
    [t \in Tasks |-> IF t <= 3 THEN RegAdd(subscribed[t], ExtCb(1))
                     ELSE NoListeners]

ConcInit ==
  /\ \E k1 \in LeafKinds, k2 \in LeafKinds :
       /\ kind = [t \in Tasks |->
                    CASE t = 1 -> k1.kind [] t = 2 -> k2.kind
                      [] t = 3 -> "multi" [] OTHER -> "none"]
       /\ length = [t \in Tasks |->
                      CASE t = 1 -> k1.len [] t = 2 -> k2.len
                        [] OTHER -> NoLength]
  /\ subs = [t \in Tasks |-> IF t = 3 THEN <<1, 2>> ELSE <<>>]
  /\ isDone = [t \in Tasks |-> FALSE]
  /\ progress = [t \in Tasks |-> 0]
  /\ listeners = Test6Listeners
  /\ fired = NoFired(listeners)
  /\ last = Called("init", 0, 0, "ok", FALSE, FALSE)
  /\ run = 0
  /\ peak = [t \in Tasks |-> Cardinality(DOMAIN listeners[t])]
  /\ IdleWorkers

IsLeaf(t) == kind[t] \in {"simple", "counter"}

\* Mutant of LockFree: the lock excludes nobody.
LockIgnored(t) == TRUE

\* `with self._progress.get_lock()` and the getter of .value wait for this.
LockFree(t) == lock[t] = 0

RECURSIVE SumCalls(_)
SumCalls(W) ==
  IF W = {} THEN 0 ELSE LET w == Min(W) IN ncalls[w] + SumCalls(W \ {w})

\* A worker enters task.update(); the workers issue MaxCalls calls in all.
CallUpdate(w, t) ==
  /\ pc[w] = "idle"
  /\ SumCalls(Workers) < MaxCalls
  /\ IsLeaf(t)
  /\ pc' = [pc EXCEPT ![w] = "check"]
  /\ wtask' = [wtask EXCEPT ![w] = t]
  /\ ncalls' = [ncalls EXCEPT ![w] = @ + 1]
  /\ UNCHANGED <<taskVars, run, peak, fired, last, tmp, lock>>

\* `if not self.is_done()`: one locked read of the shared value.
Check(w) ==
  /\ pc[w] = "check"
  /\ LockFree(wtask[w])
  /\ pc' = [pc EXCEPT ![w] =
              IF IsDone(isDone, progress, wtask[w]) THEN "idle"
              ELSE IF kind[wtask[w]] = "simple" THEN "set" ELSE "acquire"]
  /\ UNCHANGED <<taskVars, run, peak, fired, last, wtask, tmp, lock, ncalls>>

\* SimpleTask._update: self._is_done.value = True
SetDone(w) ==
  /\ pc[w] = "set"
  /\ isDone' = [isDone EXCEPT ![wtask[w]] = TRUE]
  /\ pc' = [pc EXCEPT ![w] = "notify"]
  /\ UNCHANGED <<kind, length, subs, progress, listeners, run, peak, fired, last,
                 wtask, tmp, lock, ncalls>>

\* CounterTask._update: with self._progress.get_lock():
Acquire(w) ==
  /\ pc[w] = "acquire"
  /\ LockFree(wtask[w])
  /\ lock' = [lock EXCEPT ![wtask[w]] = w]
  /\ pc' = [pc EXCEPT ![w] = "read"]
  /\ UNCHANGED <<taskVars, run, peak, fired, last, wtask, tmp, ncalls>>

\* self._progress.value += 1: the read ...
ReadProgress(w) ==
  /\ pc[w] = "read"
  /\ tmp' = [tmp EXCEPT ![w] = progress[wtask[w]]]
  /\ pc' = [pc EXCEPT ![w] = "write"]
  /\ UNCHANGED <<taskVars, run, peak, fired, last, wtask, lock, ncalls>>

\* ... and the write.
WriteProgress(w) ==
  /\ pc[w] = "write"
  /\ progress' = [progress EXCEPT ![wtask[w]] = tmp[w] + 1]
  /\ pc' = [pc EXCEPT ![w] = "release"]
  /\ UNCHANGED <<kind, length, subs, isDone, listeners, run, peak, fired, last,
                 wtask, tmp, lock, ncalls>>

\* The end of the with block.
Release(w) ==
  /\ pc[w] = "release"
  /\ lock' = [lock EXCEPT ![wtask[w]] = 0]
  /\ pc' = [pc EXCEPT ![w] = "notify"]
  /\ UNCHANGED <<taskVars, run, peak, fired, last, wtask, tmp, ncalls>>

\* The listener loop of Task.update, then update() returns.  The loop writes
\* no shared value; its one shared read is MultiTask.is_done of the
\* composite the leaf reports to.  Between resets a leaf only goes from not
\* done to done, so the child-by-child evaluation of is_done returns a value
\* the composite had at one instant: the loop is one step.
Notify(w) ==
  /\ pc[w] = "notify"
  /\ fired' = Run([d |-> isDone, p |-> progress, f |-> fired],
                  Calls(wtask[w])).f
  /\ pc' = [pc EXCEPT ![w] = "idle"]
  /\ UNCHANGED <<taskVars, run, peak, last, wtask, tmp, lock, ncalls>>

\* reset() of a task while no update() is running; the invocation counts
\* start again after it.
ConcReset(t) ==
  /\ Exists(t)
  /\ \A w \in Workers : pc[w] = "idle"
  /\ LET s == Run(Now, <<Ins("reset", t, 0)>>) IN
       /\ isDone' = s.d
       /\ progress' = s.p
       /\ last' = Called("reset", t, 0, "ok", IsDone(isDone, progress, t),
                         s.d # isDone \/ s.p # progress)
  /\ fired' = NoFired(listeners)
  /\ UNCHANGED <<kind, length, subs, listeners, concVars, run, peak>>

NextConc ==
  \/ \E w \in Workers, t \in Tasks : CallUpdate(w, t)
  \/ \E w \in Workers : Check(w)
  \/ \E w \in Workers : SetDone(w)
  \/ \E w \in Workers : Acquire(w)
  \/ \E w \in Workers : ReadProgress(w)
  \/ \E w \in Workers : WriteProgress(w)
  \/ \E w \in Workers : Release(w)
  \/ \E w \in Workers : Notify(w)
  \/ \E t \in Tasks : ConcReset(t)

SpecConc == ConcInit /\ [][NextConc]_vars

----------------------------------------------------------------------------
\* The tree below a task: MultiTask._sub_tasks, transitively.
RECURSIVE Descendants(_)
Descendants(t) ==
  IF kind[t] = "multi"
  THEN UNION {{subs[t][i]} \cup Descendants(subs[t][i]) : i \in 1..Len(subs[t])}
  ELSE {}

Ancestors(t) == {m \in Tasks : t \in Descendants(m)}

\* The zero state of a leaf.
ZeroLeaf(t) ==
  CASE kind[t] = "simple" -> ~isDone[t]
    [] kind[t] = "counter" -> progress[t] = 0
    [] OTHER -> TRUE

FiredOf(t) == {fired[t][u] : u \in DOMAIN fired[t]}
Idle == \A w \in Workers : pc[w] = "idle"

----------------------------------------------------------------------------
\* C1: on a boolean leaf, an update() issued while the leaf is not done sets
\* it done and invokes every registered listener exactly once; an update()
\* issued while it is done changes no state and invokes no listener, so over
\* any run of update() calls without a reset each listener is invoked once.
C1_BooleanUpdateNotifiesOnce ==
  (last.op = "update" /\ kind[last.t] = "simple") =>
    /\ isDone[last.t]
    /\ IF last.wasDone
       THEN ~last.changed /\ FiredOf(last.t) \subseteq {0}
       ELSE last.changed /\ FiredOf(last.t) \subseteq {1}

C1_Witness ==
  /\ last.op = "update" /\ kind[last.t] = "simple"
  /\ last.wasDone
  /\ Cardinality(DOMAIN listeners[last.t]) >= 2

\* C2: one reset() of a composite with children leaves every descendant leaf
\* in its zero state and invokes each listener of the composite exactly once.
C2_CompositeResetNotifiesOnce ==
  (last.op = "reset" /\ kind[last.t] = "multi" /\ Len(subs[last.t]) >= 1) =>
    /\ \A t \in Descendants(last.t) : ZeroLeaf(t)
    /\ FiredOf(last.t) \subseteq {1}

\* C3: every update() of a leaf that is not done invokes every listener of
\* every composite ancestor of the leaf, the update that completes the
\* composite included.
C3_LeafUpdateReachesAncestors ==
  (last.op = "update" /\ IsLeaf(last.t) /\ ~last.wasDone) =>
    \A m \in Ancestors(last.t) : \A u \in DOMAIN fired[m] : fired[m][u] >= 1

\* C4: under concurrent update() calls the completeness of every task stays
\* in [0, 1] and a counter never exceeds its (positive integer) length.
C4_CompletenessInUnitInterval ==
  \A t \in Tasks : Exists(t) =>
    LET c == Completeness(isDone, progress, t) IN
      /\ c.ok /\ RatLeq(Zero, c) /\ RatLeq(c, One)
      /\ kind[t] = "counter" => progress[t] <= length[t].num

\* C4, the part that holds: between resets completeness never decreases.
C4_CompletenessMonotone ==
  [][(\A r \in Tasks : ~ConcReset(r)) =>
       \A t \in Tasks :
         RatLeq(Completeness(isDone, progress, t),
                Completeness(isDone', progress', t))]_vars

\* The workers that called update() once, on t.
OnceOn(t) == {w \in Workers : ncalls[w] = 1 /\ wtask[w] = t}

\* Every call so far was one of K >= 1 workers calling update() once on the
\* fresh (never reset) counter t of length K, and all the calls have returned.
C5_Scenario(t) ==
  /\ kind[t] = "counter"
  /\ last.op = "init"
  /\ Idle
  /\ \A w \in Workers : ncalls[w] = 0 \/ w \in OnceOn(t)
  /\ OnceOn(t) # {}
  /\ length[t] = [num |-> Cardinality(OnceOn(t)), den |-> 1]

\* C5: K workers, each calling update() once on one fresh counter of length
\* K: when all the calls have returned the counter is K and the task done,
\* whatever the interleaving of the is_done checks and the locked increments.
C5_NoLostUpdate ==
  \A t \in Tasks : C5_Scenario(t) =>
    progress[t] = Cardinality(OnceOn(t)) /\ IsDone(isDone, progress, t)

C5_Witness == \E t \in Tasks : C5_Scenario(t) /\ OnceOn(t) = Workers

\* C6: add() returns a positive id that is no key of the registry; the
\* registry gains exactly the entry (id, listener) and keeps all the others.
C6_AddReturnsFreshId ==
  [][\A t \in Tasks, k \in ExtListeners : Add(t, k) =>
       LET uid == last'.arg IN
         /\ uid > 0
         /\ uid \notin DOMAIN listeners[t]
         /\ DOMAIN listeners'[t] = DOMAIN listeners[t] \cup {uid}
         /\ listeners'[t][uid] = ExtCb(k)
         /\ \A u \in DOMAIN listeners[t] : listeners'[t][u] = listeners[t][u]]_vars

C6_Witness ==
  /\ last.op = "add"
  /\ \E u \in DOMAIN listeners[last.t] : u > last.arg
  /\ \E u \in DOMAIN listeners[last.t] : u < last.arg

\* The smallest positive integer that is no key of reg.
SmallestFree(reg) ==
  Min({n \in 1..(Cardinality(DOMAIN reg) + 1) : n \notin DOMAIN reg})

\* C7: the id the next add() returns is the smallest positive integer that
\* is no key of the registry.
C7_SmallestAvailableId ==
  \A t \in Tasks : Exists(t) =>
    unique_integer_key(listeners[t]) = SmallestFree(listeners[t])

\* C8: with the ids 1..n registered (n >= 2) and one id k < n removed, the
\* next add() returns k.
C8_GapOfOneIsReused ==
  \A t \in Tasks : \A n \in 2..(MaxListeners + 1) : \A k \in 1..(n - 1) :
    DOMAIN listeners[t] = (1..n) \ {k} => unique_integer_key(listeners[t]) = k

C8_Witness ==
  /\ last.op = "remove" /\ last.res = "ok" /\ last.arg = 2
  /\ DOMAIN listeners[last.t] = {1, 3}

\* C9: remove(uid) of an unknown uid raises KeyError and changes neither the
\* registry nor the progress of the task; remove(uid) of a registered uid
\* deletes that entry and no other.
C9_RemoveUnknownRaises ==
  [][\A t \in Tasks, uid \in Uids : Remove(t, uid) =>
       IF uid \in DOMAIN listeners[t]
       THEN /\ last'.res = "ok"
            /\ DOMAIN listeners'[t] = DOMAIN listeners[t] \ {uid}
            /\ \A u \in DOMAIN listeners'[t] : listeners'[t][u] = listeners[t][u]
            /\ UNCHANGED <<isDone, progress>>
       ELSE /\ last'.res = "KeyError"
            /\ UNCHANGED taskVars]_vars

C9_Witness ==
  /\ last.op = "remove" /\ last.res = "KeyError"
  /\ DOMAIN listeners[last.t] # {}
  /\ last.wasDone

\* C10: no counter with a length <= 0 exists, so completeness() never
\* divides by a zero or negative length.
C10_NoNonPositiveLength ==
  \A t \in Tasks : kind[t] = "counter" =>
    length[t].num > 0 /\ Completeness(isDone, progress, t).ok

\* C11: a counted leaf with a positive integer length T that has had j <= T
\* update() calls since its constructor (or since a reset(), which leaves it
\* as the constructor does) is done exactly if j = T and its completeness()
\* is j/T, which is 1.0 at j = T.
C11_CounterReachesTarget ==
  (kind[1] = "counter" /\ length[1] \in IntegerLengths
     /\ run <= length[1].num) =>
    LET T == length[1].num
        c == Completeness(isDone, progress, 1) IN
      /\ IsDone(isDone, progress, 1) <=> run = T
      /\ RatEq(c, Ratio(run, T))
      /\ run = T => RatEq(c, One)

C11_Witness ==
  /\ kind[1] = "counter" /\ length[1] \in IntegerLengths
  /\ length[1].num = MaxLength /\ run = MaxLength
  /\ last.op = "update" /\ ~last.wasDone
  /\ IsDone(isDone, progress, 1)

\* The completeness() of the first n children of t, added up from the left.
RECURSIVE SumOfChildren(_, _)
SumOfChildren(t, n) ==
  IF n = 0 THEN Zero
  ELSE RatAdd(SumOfChildren(t, n - 1),
              Completeness(isDone, progress, subs[t][n]))

\* C12: in every state the completeness() of a composite is the arithmetic
\* mean of the completeness() of its children and its is_done() is the
\* conjunction of their is_done(); with no children it is 1.0 and done.
C12_CompositeIsMeanAndConjunction ==
  \A t \in Tasks : kind[t] = "multi" =>
    LET n == Len(subs[t])
        c == Completeness(isDone, progress, t)
        sum == SumOfChildren(t, n) IN
      /\ IsDone(isDone, progress, t) <=>
           \A i \in 1..n : IsDone(isDone, progress, subs[t][i])
      /\ n = 0 => RatEq(c, One) /\ IsDone(isDone, progress, t)
      /\ n > 0 => RatEq(c, [ok |-> sum.ok, num |-> sum.num,
                            den |-> sum.den * n])

\* Lengths 1 and 2 at counts 1 and 1 give 0.75; a composite without children
\* exists as well.
C12_Witness ==
  /\ \E t \in Tasks :
       /\ kind[t] = "multi" /\ Len(subs[t]) = 2
       /\ LET a == subs[t][1]
              b == subs[t][2] IN
            /\ kind[a] = "counter" /\ length[a] = [num |-> 1, den |-> 1]
            /\ kind[b] = "counter" /\ length[b] = [num |-> 2, den |-> 1]
            /\ progress[a] = 1 /\ progress[b] = 1
       /\ RatEq(Completeness(isDone, progress, t), Ratio(3, 4))
       /\ ~IsDone(isDone, progress, t)

\* C13: for every task (a boolean leaf, a counted leaf with a positive,
\* possibly fractional length, a composite of any depth) is_done() is true
\* exactly if completeness() >= 1.0.
C13_DoneIffComplete ==
  \A t \in Tasks : Exists(t) =>
    (IsDone(isDone, progress, t)
       <=> RatLeq(One, Completeness(isDone, progress, t)))

\* C14: reset() of a leaf is unconditional: whatever the state before it,
\* the leaf is in its zero state after the call and every listener
\* registered on the leaf has been invoked exactly once by it, also when the
\* leaf was in the zero state already.
C14_LeafResetUnconditional ==
  (last.op = "reset" /\ IsLeaf(last.t)) =>
    /\ ZeroLeaf(last.t)
    /\ \A u \in DOMAIN listeners[last.t] : fired[last.t][u] = 1

\* A reset() of a leaf that was in its zero state, with two listeners.
C14_Witness ==
  /\ last.op = "reset" /\ IsLeaf(last.t) /\ ~last.changed
  /\ Cardinality(DOMAIN listeners[last.t]) >= 2
  /\ \A u \in DOMAIN listeners[last.t] : fired[last.t][u] = 1

\* C15: while a composite m is done (one without children always is), an
\* update() issued on m or on any descendant of m, one call at a time,
\* changes no state and invokes none of the listeners registered on m.  A
\* step is an update() of t exactly if it leaves last.op = "update" and
\* last.t = t; after a reset() m is done no longer, unless it has no child.
C15_DoneCompositeAbsorbsUpdates ==
  [][\A m \in Tasks :
       (/\ last'.op = "update"
        /\ kind[m] = "multi"
        /\ IsDone(isDone, progress, m)
        /\ last'.t \in {m} \cup Descendants(m)) =>
         /\ UNCHANGED taskVars
         /\ \A u \in DOMAIN listeners[m] : fired'[m][u] = 0]_vars

\* An update() of a done leaf below a done composite that has a listener.
C15_Witness ==
  /\ last.op = "update" /\ IsLeaf(last.t) /\ last.wasDone
  /\ \E m \in Ancestors(last.t) :
       /\ IsDone(isDone, progress, m)
       /\ HasExt(m)
       /\ Len(subs[m]) = 2

\* C16: on a task whose registry is empty add() returns 1, and on a task
\* whose keys are exactly 1..n it returns n + 1 (after an add() the keys
\* before it are those of the registry without the key returned).
C16_DenseKeysGetNext ==
  /\ \A t \in Tasks, n \in 0..MaxListeners :
       DOMAIN listeners[t] = 1..n => unique_integer_key(listeners[t]) = n + 1
  /\ \A n \in 0..MaxListeners :
       (last.op = "add" /\ DOMAIN listeners[last.t] \ {last.arg} = 1..n) =>
         last.arg = n + 1

\* add() returned MaxListeners on the keys 1..MaxListeners - 1.
C16_Witness ==
  /\ last.op = "add" /\ last.arg = MaxListeners
  /\ DOMAIN listeners[last.t] = 1..MaxListeners

\* C17: on a boolean leaf, under any interleaving of concurrent update()
\* calls (the is_done check and the write of the flag are separate steps),
\* every listener registered on the leaf is invoked at most once between
\* two consecutive resets.
C17_BooleanLeafNotifiesOnceConcurrently ==
  \A t \in Tasks : kind[t] = "simple" =>
    \A u \in DOMAIN listeners[t] : fired[t][u] <= 1

\* C18: on a counted leaf with a positive integer length T, called by one
\* caller at a time, the count is in 0..T after any sequence of update() and
\* reset() calls.
C18_CountWithinLength ==
  \A t \in Tasks : (kind[t] = "counter" /\ length[t] \in IntegerLengths) =>
    (0 <= progress[t] /\ progress[t] <= length[t].num)

\* An update() of a leaf that had reached its length MaxLength, the
\* third or a later update() in a row.
C18_Witness ==
  /\ last.op = "update" /\ last.wasDone /\ run = MaxRun
  /\ kind[last.t] = "counter" /\ length[last.t] \in IntegerLengths
  /\ progress[last.t] = MaxLength

\* C19: after any sequence of add() and remove() calls on a task, every key
\* of its registry is at least 1 and at most the largest number of listeners
\* that were registered on the task at the same time.
C19_KeysWithinPeak ==
  \A t \in Tasks : \A u \in DOMAIN listeners[t] : 1 <= u /\ u <= peak[t]

\* After removals from a full registry an add() fills a gap below the
\* largest key.
C19_Witness ==
  /\ last.op = "add" /\ last.arg = MaxListeners - 1
  /\ DOMAIN listeners[last.t] = {MaxListeners - 1, MaxListeners}
  /\ peak[last.t] = MaxListeners

\* The places where t is a child: the composite and the position in it.
ParentsOf(t) ==
  {pos \in Tasks \X (1..MaxSubs) :
     pos[2] <= Len(subs[pos[1]]) /\ subs[pos[1]][pos[2]] = t}

\* Every task is a child at one place at most; cycles cannot be built, the
\* children of a composite exist before it.
TreeShaped == \A t \in Tasks : Cardinality(ParentsOf(t)) <= 1

\* C20: in a tree-shaped composition an update() of a leaf ends and has
\* invoked every listener registered on any task of the tree at most once;
\* an update() that changed nothing has invoked none, so the invocations of
\* a run are at most (effective leaf updates) x (listeners in the tree).
C20_LeafUpdateNotifiesAtMostOnce ==
  (last.op = "update" /\ IsLeaf(last.t) /\ TreeShaped) =>
    /\ \A t \in Tasks : \A u \in DOMAIN listeners[t] : fired[t][u] <= 1
    /\ ~last.changed =>
         \A t \in Tasks : \A u \in DOMAIN listeners[t] : fired[t][u] = 0

\* An effective update() of a leaf in a chain leaf - composite - composite
\* that reached the listener of the topmost composite.
C20_Witness ==
  /\ last.op = "update" /\ IsLeaf(last.t) /\ TreeShaped /\ last.changed
  /\ Cardinality(Ancestors(last.t)) = 2
  /\ \E m \in Ancestors(last.t) :
       /\ Ancestors(m) = {}
       /\ HasExt(m)
       /\ \A u \in DOMAIN listeners[m] : fired[m][u] = 1

====
